---- MODULE Spec2Model ----
(***************************************************************************)
(* NBA-Fantasy-Bot: the daily prediction script (scripts1/predict_today.py),*)
(* the feature builder (src/features/featurizer.py), the score calculator  *)
(* (etl/calc_fp.py), the schema validator (src/validators.py) and the      *)
(* draft environment (src/rl_env.py) as state machines.                    *)
(*                                                                         *)
(* Dates are day ordinals counted from 2025-01-01 = 0.  A date column      *)
(* carries its pandas dtype beside its cells: "object" for the strings     *)
(* read_csv yields, "datetime64[ns]" once pd.to_datetime has parsed them.  *)
(* A nullable cell is a sequence: <<>> for NaT/NaN, <<v>> for the value v. *)
(***************************************************************************)
EXTENDS Integers, Sequences, FiniteSets, TLC

VARIABLES
    pc,           \* position of the script that is running
    err,          \* the exception that ended the script ("" when none)
    csv,          \* data/processed/features_*.csv on disk: the rows of the file
    scheduled,    \* team ids the schedule collaborator reports for the target date
    df,           \* main(): the table load_recent_data returned
    latest_data,  \* main(): the table get_latest_player_data returned
    pred_df,      \* main(): player_data, the second value of engineer_features
    X_pred,       \* main(): the first value of engineer_features
    predictions,  \* main(): the table make_predictions returned
    saved,        \* predictions/20250310.csv on disk: <<>> or <<rows>>
    predictCalls, \* number of calls of model.predict so far
    input,        \* featurizer _cli: the --input file on disk
    hist,         \* featurizer _cli: <<>> or <<the table read from --input>>
    feats,        \* featurizer _cli: <<>> or <<the table make_features returned>>
    output,       \* featurizer _cli: the --output file on disk, <<>> or <<rows>>
    raw_csv,      \* calc_fp: data/raw/player_gamelog_2023_24.csv, <<>> or <<rows>>
    calc_df,      \* calc_fp main(): <<>> or <<the table read from raw_csv>>
    fantasy_points, \* calc_fp main(): <<>> or <<the Series calculate_fantasy_points returned>>
    processed,    \* calc_fp: the processed file written, <<>> or <<rows>>
    path,         \* validators: the processed CSV at path, the cells of its rows
    validated,    \* validators: <<>> or <<the table validate_processed_csv returned>>
    weekly_df,    \* FantasyEnv(weekly_df, bank_start): the PLAYER_ID column passed
    bank_start,   \* FantasyEnv: self.bank_start
    player_ids,   \* FantasyEnv: self.player_ids, sorted
    week,         \* FantasyEnv: self.week
    bank,         \* FantasyEnv: self.bank
    roster,       \* FantasyEnv: self.roster
    action,       \* the argument of the latest step(), <<>> or <<a>>
    returned,     \* what the latest reset() or step() returned, <<>> before any
    steps,        \* number of step() calls since the latest reset(), <<>> before any
    roster_at_call \* self.roster when the latest reset() or step() was called

predictVars == <<csv, scheduled, df, latest_data, pred_df, X_pred,
                 predictions, saved, predictCalls>>

featVars == <<input, hist, feats, output>>

calcVars == <<raw_csv, calc_df, fantasy_points, processed>>

valVars == <<path, validated>>

envVars == <<weekly_df, bank_start, player_ids, week, bank, roster, action,
             returned, steps, roster_at_call>>

vars == <<pc, err, predictVars, featVars, calcVars, valVars, envVars>>

----------------------------------------------------------------------------
(* Bounds of the model *)

NumPlayers == 2
MaxRows == 2
Margin == 1
MaxScore == 1

----------------------------------------------------------------------------
(* scripts1/predict_today.py *)

\* PREDICTION_DATE = datetime(2025, 3, 10).date(): day 68 of 2025, from 0
PREDICTION_DATE == 68

\* timedelta(days=30) of get_latest_player_data
ActiveDays == 30

Players == 1..NumPlayers

Teams == {1, 2}

\* the team a player's rows carry
TeamOf(p) == (p % 2) + 1

\* the PLAYER_NAME a player's rows carry
NameOf(p) == <<"name", p>>

Scores == 0..MaxScore

cutoff_date == PREDICTION_DATE - ActiveDays

\* game dates of the input: around the 30-day cutoff and around the target date
Dates == ((cutoff_date - Margin)..cutoff_date)
           \cup ((PREDICTION_DATE - Margin)..(PREDICTION_DATE + Margin))

\* the rows a row-wise expression yields, as one sequence value
Rows(f) == SubSeq(f, 1, Len(f))

SetMax(S) == CHOOSE x \in S : \A y \in S : y <= x

SetMin(S) == CHOOSE x \in S : \A y \in S : x <= y

\* the (PLAYER_ID, GAME_DATE) keys of a file of at most MaxRows rows
Keys == UNION {[1..n -> Players \X Dates] : n \in 0..MaxRows}

\* FeatureVector.last_game_date of row i: the entity's most recent strictly
\* earlier game date in the file, null for a first appearance
LastGameDate(keys, i) ==
    LET prior == {keys[j][2] : j \in {k \in DOMAIN keys :
                      keys[k][1] = keys[i][1] /\ keys[k][2] < keys[i][2]}}
    IN IF prior = {} THEN <<>> ELSE <<SetMax(prior)>>

\* one row of the features file
FileRow(keys, i) ==
    [PLAYER_ID |-> keys[i][1], GAME_DATE |-> keys[i][2],
     LAST_GAME_DATE |-> LastGameDate(keys, i),
     TEAM_ID |-> TeamOf(keys[i][1]), PLAYER_NAME |-> NameOf(keys[i][1])]

Files == {[i \in DOMAIN keys |-> FileRow(keys, i)] : keys \in Keys}

ObjectDtypes == [GAME_DATE |-> "object", LAST_GAME_DATE |-> "object"]

NoTable == [dtypes |-> ObjectDtypes, rows |-> <<>>]

\* pd.read_csv(features_path): a RangeIndex, date columns left as strings
read_csv(file) ==
    [dtypes |-> ObjectDtypes,
     rows |-> [i \in DOMAIN file |-> [idx |-> i - 1] @@ file[i]]]

\* the featurizer is not running
FeaturizerIdle ==
    /\ input = <<>>
    /\ hist = <<>>
    /\ feats = <<>>
    /\ output = <<>>

\* calc_fp is not running
CalcIdle ==
    /\ raw_csv = <<>>
    /\ calc_df = <<>>
    /\ fantasy_points = <<>>
    /\ processed = <<>>

\* validate_processed_csv is not running
ValidatorIdle ==
    /\ path = <<>>
    /\ validated = <<>>

\* no FantasyEnv exists
EnvIdle ==
    /\ weekly_df = <<>>
    /\ bank_start = 0
    /\ player_ids = <<>>
    /\ week = 0
    /\ bank = 0
    /\ roster = {}
    /\ action = <<>>
    /\ returned = <<>>
    /\ steps = <<>>
    /\ roster_at_call = {}

Init ==
    /\ pc = "start"
    /\ err = ""
    /\ FeaturizerIdle
    /\ CalcIdle
    /\ ValidatorIdle
    /\ EnvIdle
    /\ csv \in Files
    /\ scheduled \in SUBSET Teams
    /\ df = NoTable
    /\ latest_data = <<>>
    /\ pred_df = <<>>
    /\ X_pred = <<>>
    /\ predictions = <<>>
    /\ saved = <<>>
    /\ predictCalls = 0

\* except Exception as e: print(...); raise
Raise(e) ==
    /\ pc' = "error"
    /\ err' = e

load_model ==
    /\ pc = "start"
    /\ \/ Raise("FileNotFoundError")
       \/ pc' = "model_loaded" /\ err' = err
    /\ UNCHANGED <<csv, scheduled, df, latest_data, pred_df, X_pred,
                   predictions, saved, predictCalls,
                   featVars, calcVars, valVars, envVars>>

load_recent_data ==
    /\ pc = "model_loaded"
    /\ \/ Raise("FileNotFoundError") /\ df' = df
       \/ pc' = "loaded" /\ err' = err /\ df' = read_csv(csv)
    /\ UNCHANGED <<csv, scheduled, latest_data, pred_df, X_pred,
                   predictions, saved, predictCalls,
                   featVars, calcVars, valVars, envVars>>

\* pd.to_datetime on the two date columns, assigned back into the table
to_datetime(t) ==
    [t EXCEPT !.dtypes = [GAME_DATE |-> "datetime64[ns]",
                          LAST_GAME_DATE |-> "datetime64[ns]"]]

\* df[df['GAME_DATE'] >= cutoff_date]: the rows kept, in file order
recent_rows(rows) == SelectSeq(rows, LAMBDA r : r.GAME_DATE >= cutoff_date)

\* idxmax taking the last row that holds the maximum instead of the first
idxmax_last_occurrence(rows, p) ==
    LET mine == {i \in DOMAIN rows : rows[i].PLAYER_ID = p}
        top  == SetMax({rows[i].GAME_DATE : i \in mine})
    IN rows[SetMax({i \in mine : rows[i].GAME_DATE = top})].idx

\* recent_df.groupby('PLAYER_ID')['GAME_DATE'].idxmax() for one player: the
\* index label of the first row holding the player's maximum GAME_DATE
idxmax(rows, p) ==
    LET mine == {i \in DOMAIN rows : rows[i].PLAYER_ID = p}
        top  == SetMax({rows[i].GAME_DATE : i \in mine})
    IN rows[SetMin({i \in mine : rows[i].GAME_DATE = top})].idx

\* the row of a table with a given index label
RowAt(rows, label) == rows[CHOOSE i \in DOMAIN rows : rows[i].idx = label]

\* the members of a finite set of integers in ascending order
RECURSIVE Ascending(_)
Ascending(S) ==
    IF S = {} THEN <<>> ELSE <<SetMin(S)>> \o Ascending(S \ {SetMin(S)})

\* recent_df.loc[recent_df.groupby('PLAYER_ID')['GAME_DATE'].idxmax()]:
\* one row per player of recent_df, the groups in ascending PLAYER_ID
latest_rows_of(rows) ==
    LET recent == recent_rows(rows)
        pids   == Ascending({recent[i].PLAYER_ID : i \in DOMAIN recent})
    IN [k \in DOMAIN pids |-> RowAt(recent, idxmax(recent, pids[k]))]

get_latest_player_data ==
    /\ pc = "loaded"
    /\ df' = to_datetime(df)
    /\ \/ Raise("TypeError") /\ latest_data' = latest_data
       \/ /\ pc' = "latest"
          /\ err' = err
          /\ latest_data' = latest_rows_of(df'.rows)
    /\ UNCHANGED <<csv, scheduled, pred_df, X_pred, predictions, saved,
                   predictCalls,
                   featVars, calcVars, valVars, envVars>>

\* (pd.to_datetime(PREDICTION_DATE) - pred_df['LAST_GAME_DATE']).dt.days for
\* one cell: NaN for a NaT cell
days_until_prediction(last) ==
    IF last = <<>> THEN <<>> ELSE <<PREDICTION_DATE - last[1]>>

\* pred_df of engineer_features: a copy of its argument with PRED_GAME_DATE
\* and DAYS_REST added
with_prediction_columns(rows) ==
    [k \in DOMAIN rows |->
        [PRED_GAME_DATE |-> PREDICTION_DATE,
         DAYS_REST |-> days_until_prediction(rows[k].LAST_GAME_DATE)]
        @@ rows[k]]

\* the sum of f over a finite set of positions
RECURSIVE SumOver(_, _)
SumOver(f, S) ==
    IF S = {} THEN 0
    ELSE LET i == CHOOSE x \in S : TRUE IN f[i] + SumOver(f, S \ {i})

\* X_pred.fillna(X_pred.mean()) on the DAYS_REST column: a cell becomes the
\* fraction <<numerator, denominator>>; a NaN cell takes the mean of the cells
\* that are present, and stays NaN when none is
fillna_mean(rows) ==
    LET present == {k \in DOMAIN rows : rows[k].DAYS_REST # <<>>}
        total   == SumOver([k \in DOMAIN rows |->
                              IF k \in present THEN rows[k].DAYS_REST[1] ELSE 0],
                           present)
    IN [k \in DOMAIN rows |->
          [idx |-> rows[k].idx,
           PLAYER_ID |-> rows[k].PLAYER_ID,
           DAYS_REST |-> IF k \in present THEN <<rows[k].DAYS_REST[1], 1>>
                         ELSE IF present = {} THEN <<>>
                         ELSE <<total, Cardinality(present)>>]]

\* The columns of the features file that only the model reads (the rolling
\* means, IS_HOME, LAST_GAME_DAYOFWEEK, LAST_GAME_MONTH) are part of the
\* model's opaque input: make_predictions draws the scores.
engineer_features ==
    /\ pc = "latest"
    /\ pc' = "engineered"
    /\ pred_df' = with_prediction_columns(latest_data)
    /\ X_pred' = fillna_mean(pred_df')
    /\ UNCHANGED <<err, csv, scheduled, df, latest_data, predictions, saved,
                   predictCalls,
                   featVars, calcVars, valVars, envVars>>

\* the orders in which the rows of a table can be arranged
Arrangements(rows) ==
    {[k \in DOMAIN rows |-> rows[f[k]]] :
        f \in {g \in [DOMAIN rows -> DOMAIN rows] :
                  \A a, b \in DOMAIN rows : a # b => g[a] # g[b]}}

\* results.sort_values('PRED_FP', ascending=False): the default kind,
\* 'quicksort', is not a stable sort, so rows of equal PRED_FP may come out in
\* any order
sort_values_descending(rows) ==
    {s \in Arrangements(rows) :
        \A a, b \in DOMAIN s : a < b => s[a].PRED_FP >= s[b].PRED_FP}

\* pd.DataFrame({'PLAYER_ID': X_pred[...], 'PLAYER_NAME': player_data[...],
\* 'PRED_FP': predictions}): the two Series are aligned on their index labels,
\* the array of predictions is taken by position
results_frame(X, player_data, scores) ==
    [k \in DOMAIN X |->
        [idx |-> X[k].idx,
         PLAYER_ID |-> X[k].PLAYER_ID,
         PLAYER_NAME |-> RowAt(player_data, X[k].idx).PLAYER_NAME,
         PRED_FP |-> scores[k]]]

\* model.predict is called on whatever X_pred holds; on a table of zero rows
\* a scikit-learn forest raises ValueError, another pickled model may return
\* an empty array
make_predictions ==
    /\ pc = "engineered"
    /\ predictCalls' = predictCalls + 1
    /\ \/ /\ X_pred = <<>>
          /\ Raise("ValueError")
          /\ predictions' = predictions
       \/ /\ pc' = "predicted"
          /\ err' = err
          /\ \E scores \in [DOMAIN X_pred -> Scores] :
                predictions' \in
                    sort_values_descending(results_frame(X_pred, pred_df, scores))
    /\ UNCHANGED <<csv, scheduled, df, latest_data, pred_df, X_pred, saved,
                   featVars, calcVars, valVars, envVars>>

\* predictions.to_csv(filename, index=False)
to_csv(rows) ==
    [k \in DOMAIN rows |->
        [PLAYER_ID |-> rows[k].PLAYER_ID, PLAYER_NAME |-> rows[k].PLAYER_NAME,
         PRED_FP |-> rows[k].PRED_FP]]

save_predictions ==
    /\ pc = "predicted"
    /\ pc' = "done"
    /\ saved' = <<to_csv(predictions)>>
    /\ UNCHANGED <<err, csv, scheduled, df, latest_data, pred_df, X_pred,
                   predictions, predictCalls,
                   featVars, calcVars, valVars, envVars>>

Next ==
    \/ load_model
    \/ load_recent_data
    \/ get_latest_player_data
    \/ engineer_features
    \/ make_predictions
    \/ save_predictions

Spec == Init /\ [][Next]_vars

----------------------------------------------------------------------------
(* src/features/featurizer.py *)

\* windows: Iterable[int] = (3, 5, 10)
windows == <<3, 5, 10>>

WindowSizes == {windows[n] : n \in DOMAIN windows}

\* min_periods=1 of the rolling call
min_periods == 1

\* the greatest common divisor of a >= 0 and b > 0
RECURSIVE GCD(_, _)
GCD(a, b) == IF a = 0 THEN b ELSE GCD(b % a, a)

\* the number num / den, den > 0, as the fraction in lowest terms
Fraction(num, den) ==
    LET g == GCD(num, den) IN <<num \div g, den \div g>>

\* the sum of a sequence of numbers
RECURSIVE SeqSum(_)
SeqSum(xs) == IF xs = <<>> THEN 0 ELSE Head(xs) + SeqSum(Tail(xs))

\* rolling_mean with a window one row too long
rolling_mean_wide(xs, i, w, mp) ==
    LET first == IF i - w > 1 THEN i - w ELSE 1
        win   == SubSeq(xs, first, i)
    IN IF Len(win) < mp THEN <<>> ELSE Fraction(SeqSum(win), Len(win))

\* x.rolling(window=w, min_periods=mp).mean() at position i (from 1) of the
\* series xs: the mean over the last w values up to i as a fraction,
\* NaN while fewer than mp values are in the window
rolling_mean(xs, i, w, mp) ==
    LET first == IF i - w + 1 > 1 THEN i - w + 1 ELSE 1
        win   == SubSeq(xs, first, i)
    IN IF Len(win) < mp THEN <<>> ELSE Fraction(SeqSum(win), Len(win))

\* df.groupby("PLAYER_ID")[col]: the values of col in the rows of player p, in
\* the row order of the table
group_values(rows, p, col) ==
    LET mine == SelectSeq(rows, LAMBDA r : r.PLAYER_ID = p)
    IN Rows([n \in DOMAIN mine |-> mine[n][col]])

\* the position (from 1) of row k within its player's group
group_position(rows, k) ==
    Cardinality({j \in 1..k : rows[j].PLAYER_ID = rows[k].PLAYER_ID})

\* the column add_rolling_features adds for col: one cell per window size
rolling_column(col) ==
    IF col = "MIN" THEN "MIN_rolling" ELSE "fantasy_points_rolling"

\* add_rolling_features(df, col): transform() puts each group's rolling means
\* back on the rows of the group
add_rolling_features(rows, col) ==
    Rows([k \in DOMAIN rows |->
        (rolling_column(col) :>
            [w \in WindowSizes |->
                rolling_mean(group_values(rows, rows[k].PLAYER_ID, col),
                             group_position(rows, k), w, min_periods)])
        @@ rows[k]])

\* df["MATCHUP"].str.contains(r"vs\.").astype(int); a MATCHUP is its tokens
add_home_away_flag(rows) ==
    Rows([k \in DOMAIN rows |->
        [IS_HOME |-> IF \E n \in DOMAIN rows[k].MATCHUP : rows[k].MATCHUP[n] = "vs."
                     THEN 1 ELSE 0]
        @@ rows[k]])

\* row a comes before row b in df.sort_values(["PLAYER_ID", "GAME_DATE"]): the
\* sort on several columns is stable
sorts_before(rows, a, b) ==
    \/ rows[a].PLAYER_ID < rows[b].PLAYER_ID
    \/ /\ rows[a].PLAYER_ID = rows[b].PLAYER_ID
       /\ \/ rows[a].GAME_DATE < rows[b].GAME_DATE
          \/ rows[a].GAME_DATE = rows[b].GAME_DATE /\ a < b

sort_values(rows) ==
    LET place(k) == 1 + Cardinality({j \in DOMAIN rows : sorts_before(rows, j, k)})
    IN Rows([n \in DOMAIN rows |-> rows[CHOOSE k \in DOMAIN rows : place(k) = n]])

\* add_days_rest(df): sort, then GAME_DATE - groupby("PLAYER_ID").shift(1) in
\* days, 0 where the player has no previous row
add_days_rest(rows) ==
    LET sorted == sort_values(rows)
    IN Rows([n \in DOMAIN sorted |->
          [DAYS_REST |->
              IF n > 1 /\ sorted[n - 1].PLAYER_ID = sorted[n].PLAYER_ID
              THEN sorted[n].GAME_DATE - sorted[n - 1].GAME_DATE
              ELSE 0]
          @@ sorted[n]])

\* rolls after the four helpers of make_features have run on the copy
rolls_of(full_history) ==
    LET r1 == add_rolling_features(full_history.rows, "fantasy_points")
        r2 == IF "MIN" \in full_history.columns
              THEN add_rolling_features(r1, "MIN") ELSE r1
    IN add_days_rest(add_home_away_flag(r2))

\* rolls.loc[df.index, feature_cols].reset_index(drop=True)
feature_rows(rolls, latest_rows, has_min) ==
    [k \in DOMAIN latest_rows.rows |->
        LET r == RowAt(rolls, latest_rows.rows[k].idx)
        IN [idx |-> k - 1,
            fantasy_points_rolling |-> r.fantasy_points_rolling,
            MIN_rolling |-> IF has_min THEN <<r.MIN_rolling>> ELSE <<>>,
            IS_HOME |-> r.IS_HOME,
            DAYS_REST |-> r.DAYS_REST]]

\* make_features(latest_rows, full_history): both arguments are copied first
make_features_of(latest_rows, full_history) ==
    feature_rows(rolls_of(full_history), latest_rows,
                 "MIN" \in full_history.columns)

(* The --input file, data/processed/fantasy_points_*.csv *)

ShortRows == 2
LongRows == 11

FeatPlayers == {1, 2}

\* the matchup of the row at position i: away and home games alternate
MatchupOf(i) ==
    IF i % 2 = 0 THEN <<"BOS", "vs.", "NYK">> ELSE <<"BOS", "@", "NYK">>

\* a value that varies with the row number
Pattern(i) == ((i * i) % 5) + 1

\* minutes played of the row at position i
MinutesOf(i) == 4 + Pattern(i + 1)

\* short files: every row's player, date and score drawn freely
ShortFiles ==
    UNION {{[i \in 1..n |-> [MATCHUP |-> MatchupOf(i)] @@ f[i]]
              : f \in [1..n -> [PLAYER_ID : FeatPlayers,
                                GAME_DATE : 1..(ShortRows + 1),
                                fantasy_points : {1, 2}]]}
             : n \in 0..ShortRows}

\* long files of LongRows rows, one game a day: either every row's player is
\* drawn freely, or every row is player 1's and its score is drawn freely
LongFiles ==
    {[i \in 1..LongRows |->
        [PLAYER_ID |-> IF byPlayer THEN bits[i] ELSE 1,
         GAME_DATE |-> i,
         MATCHUP |-> MatchupOf(i),
         fantasy_points |-> IF byPlayer THEN Pattern(i) ELSE bits[i]]]
       : bits \in [1..LongRows -> {1, 2}], byPlayer \in BOOLEAN}

BaseColumns == {"PLAYER_ID", "GAME_DATE", "MATCHUP", "fantasy_points"}

\* a file with the columns given
WithColumns(f, extra) ==
    [columns |-> BaseColumns \cup extra,
     rows |-> [i \in DOMAIN f |->
                 [MIN |-> IF extra = {} THEN 0 ELSE MinutesOf(i)] @@ f[i]]]

\* the short files with or without a MIN column, the long ones with it
FeatInputs ==
    {WithColumns(f, extra) : f \in ShortFiles, extra \in {{}, {"MIN"}}}
      \cup {WithColumns(f, {"MIN"}) : f \in LongFiles}

\* the prediction script is not running
PredictIdle ==
    /\ csv = <<>>
    /\ scheduled = {}
    /\ df = NoTable
    /\ latest_data = <<>>
    /\ pred_df = <<>>
    /\ X_pred = <<>>
    /\ predictions = <<>>
    /\ saved = <<>>
    /\ predictCalls = 0

InitFeat ==
    /\ pc = "cli_start"
    /\ err = ""
    /\ PredictIdle
    /\ CalcIdle
    /\ ValidatorIdle
    /\ EnvIdle
    /\ input \in FeatInputs
    /\ hist = <<>>
    /\ feats = <<>>
    /\ output = <<>>

\* hist = pd.read_csv(input)
cli_read_csv ==
    /\ pc = "cli_start"
    /\ pc' = "cli_loaded"
    /\ hist' = <<[dtypes |-> [GAME_DATE |-> "object"],
                  columns |-> input.columns,
                  rows |-> [i \in DOMAIN input.rows |->
                              [idx |-> i - 1] @@ input.rows[i]]]>>
    /\ UNCHANGED <<err, predictVars, calcVars, valVars, envVars, input, feats, output>>

\* feats = make_features(hist, hist)
make_features ==
    /\ pc = "cli_loaded"
    /\ pc' = "cli_featured"
    /\ feats' = <<make_features_of(hist[1], hist[1])>>
    /\ UNCHANGED <<err, predictVars, calcVars, valVars, envVars, input, hist, output>>

\* feats.to_csv(output, index=False)
cli_to_csv ==
    /\ pc = "cli_featured"
    /\ pc' = "cli_done"
    /\ output' = <<[k \in DOMAIN feats[1] |->
                      [c \in DOMAIN feats[1][k] \ {"idx"} |-> feats[1][k][c]]]>>
    /\ UNCHANGED <<err, predictVars, calcVars, valVars, envVars, input, hist, feats>>

NextFeat ==
    \/ cli_read_csv
    \/ make_features
    \/ cli_to_csv

SpecFeat == InitFeat /\ [][NextFeat]_vars

----------------------------------------------------------------------------
(* etl/calc_fp.py.  Fantasy points are counted in quarters of a point, the   *)
(* unit in which every weight of the scoring rule is a whole number: 18.0    *)
(* points are 72 quarters.                                                   *)

MaxStat == 2

\* the scoring rule in quarter points: 1.0, 1.25, 1.5, 2.0, 3.0 and -1.0
QuarterWeights ==
    [PTS |-> 4, REB |-> 5, AST |-> 6, STL |-> 8, BLK |-> 12, TOV |-> 0 - 4]

\* calculate_fantasy_points with turnovers added instead of subtracted
calculate_fantasy_points_tov_added(rows) ==
    [i \in DOMAIN rows |->
        rows[i].PTS * 4 + rows[i].REB * 5 + rows[i].AST * 6
          + rows[i].STL * 8 + rows[i].BLK * 12 + rows[i].TOV * 4]

\* calculate_fantasy_points(df): a new Series, one value per row
calculate_fantasy_points(rows) ==
    [i \in DOMAIN rows |->
        rows[i].PTS * QuarterWeights.PTS + rows[i].REB * QuarterWeights.REB
          + rows[i].AST * QuarterWeights.AST + rows[i].STL * QuarterWeights.STL
          + rows[i].BLK * QuarterWeights.BLK + rows[i].TOV * QuarterWeights.TOV]

\* the record of the worked example of the scoring rule
WorkedExample ==
    [PTS |-> 10, REB |-> 4, AST |-> 2, STL |-> 1, BLK |-> 0, TOV |-> 2]

StatLines ==
    [PTS : 0..MaxStat, REB : 0..MaxStat, AST : 0..MaxStat,
     STL : 0..MaxStat, BLK : 0..MaxStat, TOV : 0..MaxStat]
      \cup {WorkedExample}

\* raw game logs: no row, one row, or the worked example and one more row
RawFiles ==
    {<<>>} \cup {<<r>> : r \in StatLines}
           \cup {<<WorkedExample, r>> : r \in StatLines}

InitCalc ==
    /\ pc = "calc_start"
    /\ err = ""
    /\ PredictIdle
    /\ FeaturizerIdle
    /\ ValidatorIdle
    /\ EnvIdle
    /\ raw_csv \in {<<>>} \cup {<<f>> : f \in RawFiles}
    /\ calc_df = <<>>
    /\ fantasy_points = <<>>
    /\ processed = <<>>

\* df = pd.read_csv(...); except FileNotFoundError: print(...); return
calc_read_csv ==
    /\ pc = "calc_start"
    /\ \/ raw_csv = <<>> /\ pc' = "calc_returned" /\ calc_df' = calc_df
       \/ raw_csv # <<>> /\ pc' = "calc_loaded" /\ calc_df' = <<raw_csv[1]>>
    /\ UNCHANGED <<err, predictVars, featVars, valVars, envVars, raw_csv, fantasy_points, processed>>

\* the call calculate_fantasy_points(df) of main()
calc_fantasy_points ==
    /\ pc = "calc_loaded"
    /\ pc' = "calc_scored"
    /\ fantasy_points' = <<calculate_fantasy_points(calc_df[1])>>
    /\ UNCHANGED <<err, predictVars, featVars, valVars, envVars, raw_csv, calc_df, processed>>

\* df['fantasy_points'] = ...; df.to_csv(output_file, index=False)
calc_to_csv ==
    /\ pc = "calc_scored"
    /\ pc' = "calc_done"
    /\ calc_df' = <<[i \in DOMAIN calc_df[1] |->
                       [fantasy_points |-> fantasy_points[1][i]] @@ calc_df[1][i]]>>
    /\ processed' = calc_df'
    /\ UNCHANGED <<err, predictVars, featVars, valVars, envVars, raw_csv, fantasy_points>>

NextCalc ==
    \/ calc_read_csv
    \/ calc_fantasy_points
    \/ calc_to_csv

SpecCalc == InitCalc /\ [][NextCalc]_vars

----------------------------------------------------------------------------
(* Properties of the prediction script *)

\* main() has passed get_latest_player_data and holds its result
Selected ==
    \/ pc \in {"latest", "engineered", "predicted", "done"}
    \/ pc = "error" /\ err = "ValueError"

\* the rows of the loaded table that get_latest_player_data restricts to
CandidateRows == {r \in {df.rows[i] : i \in DOMAIN df.rows} : r.GAME_DATE >= cutoff_date}

\* C1: every history row the projection step selects has a game_date strictly
\* before the target date; rows dated on or after the target date are never
\* used.
C1_SelectedBeforeTarget ==
    \A k \in DOMAIN latest_data : latest_data[k].GAME_DATE < PREDICTION_DATE

\* C4: every row of the projection output belongs to an entity whose team_id
\* is in the scheduled set; an entity whose team is not scheduled never
\* appears in the output.
C4_OutputOnlyScheduled ==
    pc = "done" =>
        \A k \in DOMAIN saved[1] : \A i \in DOMAIN df.rows :
            df.rows[i].PLAYER_ID = saved[1][k].PLAYER_ID
                => df.rows[i].TEAM_ID \in scheduled

\* C5: the selection yields exactly one row for each entity that has a
\* candidate row and none for any other entity; the selected row is a
\* candidate row of that entity with the maximum game_date among them, and
\* among the rows sharing that date it is the earliest in file order.
C5_LatestRowPerEntity ==
    Selected =>
        /\ \A p \in Players :
              Cardinality({k \in DOMAIN latest_data : latest_data[k].PLAYER_ID = p})
                = IF \E r \in CandidateRows : r.PLAYER_ID = p THEN 1 ELSE 0
        /\ \A k \in DOMAIN latest_data :
              /\ latest_data[k] \in CandidateRows
              /\ \A r \in CandidateRows :
                    r.PLAYER_ID = latest_data[k].PLAYER_ID =>
                       /\ r.GAME_DATE <= latest_data[k].GAME_DATE
                       /\ r.GAME_DATE = latest_data[k].GAME_DATE
                             => latest_data[k].idx <= r.idx

\* C5 witness: a selection made where an entity has two candidate rows on its
\* latest date, the selected one earlier in the file than the other
C5_Witness ==
    /\ Selected
    /\ \E k \in DOMAIN latest_data : \E r \in CandidateRows :
          /\ r.PLAYER_ID = latest_data[k].PLAYER_ID
          /\ r.GAME_DATE = latest_data[k].GAME_DATE
          /\ r.idx > latest_data[k].idx

\* the position of a player in the selection order
SelectionRank(p) == CHOOSE k \in DOMAIN latest_data : latest_data[k].PLAYER_ID = p

C7_EmptySlateReported ==
    (Selected /\ latest_data = <<>>) =>
        /\ predictCalls = 0
        /\ pc # "done"
        /\ pc = "error" => err = "EmptyResult"

\* the entity's latest game date strictly before the target date, as a
\* nullable cell
LatestUsableDate(p) ==
    LET usable == {df.rows[i].GAME_DATE : i \in {j \in DOMAIN df.rows :
                      df.rows[j].PLAYER_ID = p /\ df.rows[j].GAME_DATE < PREDICTION_DATE}}
    IN IF usable = {} THEN <<>> ELSE <<SetMax(usable)>>

\* C9: for a projection as of the target date, days_rest is the number of
\* days between the target date and the entity's latest usable game_date
\* (stated for the rows that carry a last game date).
C9_ProjectedDaysRest ==
    \A k \in DOMAIN pred_df :
        (/\ pred_df[k].LAST_GAME_DATE # <<>>
         /\ LatestUsableDate(pred_df[k].PLAYER_ID) # <<>>) =>
            pred_df[k].DAYS_REST
              = <<PREDICTION_DATE - LatestUsableDate(pred_df[k].PLAYER_ID)[1]>>

\* C10: after a pipeline operation that receives a history table, the table
\* the caller passed in has the same rows, columns and cell values as before:
\* main()'s df stays what load_recent_data read.
C10_CallerTableUnchanged ==
    pc \notin {"start", "model_loaded"} /\ ~(pc = "error" /\ err = "FileNotFoundError")
        => df = read_csv(csv)

----------------------------------------------------------------------------
(* Properties of the feature builder *)

\* the mean of column col over the rows at the positions win, as a fraction
WindowMean(rows, col, win) ==
    Fraction(SumOver([j \in DOMAIN rows |-> rows[j][col]], win), Cardinality(win))

\* the rows of row k's entity dated up to row k, ties by file order
DatedUpTo(rows, k) ==
    {j \in DOMAIN rows :
        /\ rows[j].PLAYER_ID = rows[k].PLAYER_ID
        /\ \/ rows[j].GAME_DATE < rows[k].GAME_DATE
           \/ rows[j].GAME_DATE = rows[k].GAME_DATE /\ j <= k}

\* the last w of the rows at positions part, by date and then file order
LatestByDate(rows, part, w) ==
    {j \in part :
        Cardinality({m \in part :
            \/ rows[m].GAME_DATE > rows[j].GAME_DATE
            \/ rows[m].GAME_DATE = rows[j].GAME_DATE /\ m > j}) < w}

\* C2: the rolling mean attached to a row is computed over the entity's rows
\* sorted by game_date ascending, so it is the mean over the last w records of
\* the entity dated up to the row's date, whatever the row order of the input.
C2_RollingInDateOrder ==
    feats # <<>> =>
        \A k \in DOMAIN hist[1].rows : \A w \in {3, 5, 10} :
            feats[1][k].fantasy_points_rolling[w]
              = WindowMean(hist[1].rows, "fantasy_points",
                           LatestByDate(hist[1].rows, DatedUpTo(hist[1].rows, k), w))

\* the rows of row k's entity up to row k in file order: its partition up to
\* position i
PartitionUpTo(rows, k) ==
    {j \in 1..k : rows[j].PLAYER_ID = rows[k].PLAYER_ID}

\* the last w of the positions part
Trailing(part, w) ==
    {j \in part : Cardinality({m \in part : m > j}) < w}

\* C3: for the row at position i of an entity's partition and each window
\* size w in {3, 5, 10}, the rolling value is the mean of the value column
\* over positions max(0, i-w+1)..i; it is never missing, and for an entity
\* with exactly one record it is that record's value.
C3_TrailingWindow ==
    feats # <<>> =>
        \A k \in DOMAIN hist[1].rows : \A w \in {3, 5, 10} :
            LET rows == hist[1].rows
                win  == Trailing(PartitionUpTo(rows, k), w)
            IN /\ feats[1][k].fantasy_points_rolling[w] # <<>>
               /\ feats[1][k].fantasy_points_rolling[w]
                    = WindowMean(rows, "fantasy_points", win)
               /\ "MIN" \in hist[1].columns =>
                    feats[1][k].MIN_rolling[1][w] = WindowMean(rows, "MIN", win)
               /\ Cardinality({j \in DOMAIN rows :
                                 rows[j].PLAYER_ID = rows[k].PLAYER_ID}) = 1
                    => feats[1][k].fantasy_points_rolling[w]
                         = <<rows[k].fantasy_points, 1>>

\* C3 witness: features built for an entity with more than ten rows, whose
\* window of 10 has dropped a row that differs from the newest one
C3_Witness ==
    /\ feats # <<>>
    /\ \E k \in DOMAIN hist[1].rows :
          /\ Cardinality(PartitionUpTo(hist[1].rows, k)) > 10
          /\ feats[1][k].fantasy_points_rolling[10]
                # WindowMean(hist[1].rows, "fantasy_points",
                             PartitionUpTo(hist[1].rows, k))
          /\ feats[1][k].fantasy_points_rolling[3]
                # feats[1][k].fantasy_points_rolling[5]

----------------------------------------------------------------------------
(* Properties of the score calculator *)

\* C8: for every record with non-negative statistics the score is exactly
\* 1.0*PTS + 1.25*REB + 1.5*AST + 2.0*STL + 3.0*BLK - 1.0*TOV, the input table
\* is left unchanged, and points 10, rebounds 4, assists 2, steals 1, blocks 0,
\* turnovers 2 give 18.0 (72 quarter points).
C8_ScoreFormula ==
    pc = "calc_scored" =>
        /\ calc_df = raw_csv
        /\ DOMAIN fantasy_points[1] = DOMAIN raw_csv[1]
        /\ \A i \in DOMAIN raw_csv[1] :
              LET r == raw_csv[1][i]
              IN /\ fantasy_points[1][i]
                      = 4 * (r.PTS + r.STL + r.STL - r.TOV) + 5 * r.REB
                          + 6 * (r.AST + r.BLK + r.BLK)
                 /\ r = WorkedExample => fantasy_points[1][i] = 72

\* C8 witness: the worked example scored beside a record with other statistics
C8_Witness ==
    /\ pc = "calc_scored"
    /\ Len(raw_csv[1]) = 2
    /\ raw_csv[1][1] = WorkedExample
    /\ fantasy_points[1][1] = 72
    /\ raw_csv[1][2].TOV > 0
    /\ fantasy_points[1][2] # 72

----------------------------------------------------------------------------
(* src/validators.py *)

ValRows == 2
ValDates == 2

\* Check.ge(4) of the MIN column
MinMinutes == 4

\* A cell of the CSV text: <<>> when empty, <<"int", v>> for an integer
\* literal, <<"float", v>> for a literal with a decimal point (v.0),
\* <<"date", d>> for a date string, <<"text">> for a string that is no date.
ValidRow(d) ==
    [PLAYER_ID |-> <<"int", 1>>, GAME_DATE |-> <<"date", d>>,
     MIN |-> <<"float", MinMinutes>>, fantasy_points |-> <<"float", 1>>]

\* rows of the processed file: a row the schema accepts, or that row with one
\* cell written differently
ProcessedRows ==
    UNION {{ValidRow(d)}
             \cup {[ValidRow(d) EXCEPT !.PLAYER_ID = c] : c \in {<<>>, <<"int", 0>>}}
             \cup {[ValidRow(d) EXCEPT !.GAME_DATE = c] : c \in {<<>>, <<"text">>}}
             \cup {[ValidRow(d) EXCEPT !.MIN = c] :
                      c \in {<<>>, <<"int", MinMinutes>>, <<"int", MinMinutes - 1>>,
                             <<"float", MinMinutes - 1>>}}
             \cup {[ValidRow(d) EXCEPT !.fantasy_points = c] : c \in {<<>>, <<"int", 1>>}}
           : d \in 1..ValDates}

ProcessedFiles == UNION {[1..n -> ProcessedRows] : n \in 0..ValRows}

\* the dtype read_csv infers for a numeric column: int64 when every cell is an
\* integer literal, float64 when a cell is empty (NaN) or has a decimal
\* point, object when the file has no rows
numeric_dtype(cells) ==
    IF cells = <<>> THEN "object"
    ELSE IF \A i \in DOMAIN cells : cells[i] # <<>> /\ cells[i][1] = "int"
         THEN "int64"
         ELSE "float64"

\* the dtype of a parse_dates column: datetime64[ns] when every cell parses
\* (an empty cell is NaT), else the strings are kept
date_dtype(cells) ==
    IF cells = <<>> \/ \E i \in DOMAIN cells : cells[i] = <<"text">>
    THEN "object"
    ELSE "datetime64[ns]"

column_of(file, c) == Rows([i \in DOMAIN file |-> file[i][c]])

\* the value a parsed cell holds: <<>> for NaN/NaT, <<v>> otherwise
parsed(cell) == IF cell = <<>> THEN <<>> ELSE <<cell[2]>>

\* pd.read_csv(path, parse_dates=["GAME_DATE"])
read_csv_parse_dates(file) ==
    LET dates == date_dtype(column_of(file, "GAME_DATE")) IN
    [dtypes |-> [PLAYER_ID |-> numeric_dtype(column_of(file, "PLAYER_ID")),
                 GAME_DATE |-> dates,
                 MIN |-> numeric_dtype(column_of(file, "MIN")),
                 fantasy_points |-> numeric_dtype(column_of(file, "fantasy_points"))],
     rows |-> Rows([i \in DOMAIN file |->
                 [PLAYER_ID |-> parsed(file[i].PLAYER_ID),
                  GAME_DATE |-> IF dates = "object" THEN file[i].GAME_DATE
                                ELSE parsed(file[i].GAME_DATE),
                  MIN |-> parsed(file[i].MIN),
                  fantasy_points |-> parsed(file[i].fantasy_points)]])]

\* Series.is_monotonic_increasing: each value <= the next
is_monotonic_increasing(xs) ==
    \A i \in 1..(Len(xs) - 1) : xs[i][1] <= xs[i + 1][1]

\* a column without nulls (pandera's nullable=False default, Check.not_null)
not_null(table, c) == \A i \in DOMAIN table.rows : table.rows[i][c] # <<>>

\* player_schema.validate(df, lazy=False) passes: per column the dtype (no
\* coercion), no null, the column's check; then the table-wide check
player_schema_validate(table) ==
    /\ table.dtypes.PLAYER_ID = "int64"
    /\ not_null(table, "PLAYER_ID")
    /\ \A i \in DOMAIN table.rows : table.rows[i].PLAYER_ID[1] > 0
    /\ table.dtypes.GAME_DATE = "datetime64[ns]"
    /\ not_null(table, "GAME_DATE")
    /\ table.dtypes.MIN = "float64"
    /\ not_null(table, "MIN")
    /\ \A i \in DOMAIN table.rows : table.rows[i].MIN[1] >= MinMinutes
    /\ table.dtypes.fantasy_points = "float64"
    /\ not_null(table, "fantasy_points")
    /\ is_monotonic_increasing(column_of(table.rows, "GAME_DATE"))

InitVal ==
    /\ pc = "val_start"
    /\ err = ""
    /\ PredictIdle
    /\ FeaturizerIdle
    /\ CalcIdle
    /\ EnvIdle
    /\ path \in ProcessedFiles
    /\ validated = <<>>

\* from src.validators import validate_processed_csv: the module builds
\* player_schema.  not_null is not one of pandera's built-in checks, and
\* Check's attribute lookup raises AttributeError for a name that no
\* installed or registered check has.
import_validators ==
    /\ pc = "val_start"
    /\ \/ Raise("AttributeError")
       \/ pc' = "val_imported" /\ err' = err
    /\ UNCHANGED <<predictVars, featVars, calcVars, valVars, envVars>>

validate_processed_csv ==
    /\ pc = "val_imported"
    /\ LET loaded == read_csv_parse_dates(path) IN
         IF player_schema_validate(loaded)
         THEN pc' = "val_returned" /\ err' = err /\ validated' = <<loaded>>
         ELSE Raise("SchemaError") /\ validated' = validated
    /\ UNCHANGED <<predictVars, featVars, calcVars, envVars, path>>

NextVal ==
    \/ import_validators
    \/ validate_processed_csv

SpecVal == InitVal /\ [][NextVal]_vars

----------------------------------------------------------------------------
(* Properties of the schema validator *)

\* the four conditions on the values of the file at path: every PLAYER_ID
\* above 0, the dates non-decreasing in row order, every MIN at least 4,
\* every fantasy_points present
ValuesValid(file) ==
    /\ \A i \in DOMAIN file : file[i].PLAYER_ID # <<>> /\ file[i].PLAYER_ID[2] > 0
    /\ \A i \in DOMAIN file : file[i].GAME_DATE # <<>> /\ file[i].GAME_DATE[1] = "date"
    /\ \A i \in 1..(Len(file) - 1) : file[i].GAME_DATE[2] <= file[i + 1].GAME_DATE[2]
    /\ \A i \in DOMAIN file : file[i].MIN # <<>> /\ file[i].MIN[2] >= MinMinutes
    /\ \A i \in DOMAIN file : file[i].fantasy_points # <<>>

\* C11: validate_processed_csv returns the loaded table, unrepaired, if and
\* only if every PLAYER_ID is > 0, GAME_DATE is non-decreasing in row order,
\* every MIN is >= 4 and every fantasy_points is non-null; otherwise it
\* raises and returns no table.  (Stated for the calls the schema decides:
\* the error is the schema's.)
C11_ValidatesExactly ==
    /\ pc = "val_returned" =>
          /\ validated = <<read_csv_parse_dates(path)>>
          /\ ValuesValid(path)
    /\ pc = "error" /\ err = "SchemaError" =>
          /\ validated = <<>>
          /\ ~ValuesValid(path)

\* the half of C11 the validator keeps: a table is returned only for a file
\* whose values meet the four conditions, and it is the table as loaded
C11_ReturnsOnlyValid ==
    pc = "val_returned" =>
        /\ validated = <<read_csv_parse_dates(path)>>
        /\ ValuesValid(path)

\* a file whose values meet the four conditions, rejected by the schema
C11_ValidRejected ==
    /\ pc = "error"
    /\ err = "SchemaError"
    /\ ValuesValid(path)

----------------------------------------------------------------------------
(* src/rl_env.py *)

EnvPlayers == 2
EnvRows == 2
MaxWeek == 12

\* bank_start: float = 50_000.0
DefaultBankStart == 50000

\* term = self.week >= 10
EpisodeLength == 10

\* significand bits of np.float32
Float32Bits == 24

\* the spacing of the float32 values around the natural number x
RECURSIVE ulp(_)
ulp(x) == IF x < 2^Float32Bits THEN 1 ELSE 2 * ulp(x \div 2)

\* np.float32 of the natural number x: the nearest float32 value, a tie
\* going to the value with the even significand
float32(x) ==
    LET u == ulp(x)
        q == x \div u
        r == x % u
    IN IF 2 * r < u THEN q * u
       ELSE IF 2 * r > u THEN (q + 1) * u
       ELSE IF q % 2 = 0 THEN q * u ELSE (q + 1) * u

\* terminated one step late
terminated_late(w) == w > EpisodeLength

\* term = self.week >= 10
terminated(w) == w >= EpisodeLength

\* _get_state(): the 6-element float32 vector
get_state(b, w) ==
    <<float32(30), float32(32), float32(2), float32(6000), float32(b), float32(w)>>

\* the PLAYER_ID column of the weekly table passed to the constructor
WeeklyFrames == UNION {[1..n -> 1..EnvPlayers] : n \in 0..EnvRows}

\* bank_start values: the default, and values at and above 2^24, where
\* float32 no longer holds every whole number
BankStarts ==
    {0, DefaultBankStart, 2^Float32Bits, 2^Float32Bits + 1, 2^Float32Bits + 3}

\* random.uniform(-1, 1), three of its values
Rewards == {-1, 0, 1}

InitEnv ==
    /\ pc = "env_start"
    /\ err = ""
    /\ PredictIdle
    /\ FeaturizerIdle
    /\ CalcIdle
    /\ ValidatorIdle
    /\ weekly_df \in WeeklyFrames
    /\ bank_start \in BankStarts
    /\ player_ids = <<>>
    /\ week = 0
    /\ bank = 0
    /\ roster = {}
    /\ action = <<>>
    /\ returned = <<>>
    /\ steps = <<>>
    /\ roster_at_call = {}

\* FantasyEnv.__init__(weekly_df, bank_start)
FantasyEnv ==
    /\ pc = "env_start"
    /\ pc' = "env_constructed"
    /\ player_ids' = Ascending({weekly_df[i] : i \in DOMAIN weekly_df})
    /\ week' = 0
    /\ bank' = bank_start
    /\ roster' = {}
    /\ UNCHANGED <<err, predictVars, featVars, calcVars, valVars,
                   weekly_df, bank_start, action, returned, steps, roster_at_call>>

\* FantasyEnv.reset()
reset ==
    /\ pc \in {"env_constructed", "env_running"}
    /\ pc' = "env_running"
    /\ week' = 0
    /\ bank' = bank_start
    /\ roster' = {}
    /\ returned' = [call |-> "reset", obs |-> get_state(bank', week')]
    /\ action' = <<>>
    /\ steps' = <<0>>
    /\ roster_at_call' = roster
    /\ UNCHANGED <<err, predictVars, featVars, calcVars, valVars,
                   weekly_df, bank_start, player_ids>>

\* FantasyEnv.step(action), action in action_space = Discrete(1 + 2 * n_players)
step ==
    /\ pc \in {"env_constructed", "env_running"}
    /\ week < MaxWeek
    /\ \E a \in 0..(2 * Len(player_ids)), reward \in Rewards :
         LET n_players == Len(player_ids) IN
         /\ roster' = IF a = 0 THEN roster
                      ELSE LET idx == (a - 1) % n_players
                               pid == player_ids[idx + 1]
                           IN IF a <= n_players THEN roster \cup {pid}
                              ELSE roster \ {pid}
         /\ week' = week + 1
         /\ returned' = [call |-> "step", obs |-> get_state(bank, week'),
                         reward |-> reward, term |-> terminated(week'),
                         trunc |-> FALSE]
         /\ action' = <<a>>
    /\ steps' = IF steps = <<>> THEN steps ELSE <<steps[1] + 1>>
    /\ roster_at_call' = roster
    /\ UNCHANGED <<pc, err, predictVars, featVars, calcVars, valVars,
                   weekly_df, bank_start, player_ids, bank>>

NextEnv ==
    \/ FantasyEnv
    \/ reset
    \/ step

SpecEnv == InitEnv /\ [][NextEnv]_vars

----------------------------------------------------------------------------
(* Properties of the draft environment *)

\* the player ids of the weekly table
KnownPlayerIds == {weekly_df[i] : i \in DOMAIN weekly_df}

\* what C12 says of everything but the bank element, in a state after a reset()
EpisodeShape ==
    /\ Len(returned.obs) = 6
    /\ returned.call = "step" =>
          /\ returned.term = (steps[1] >= 10)
          /\ returned.trunc = FALSE
          /\ action = <<0>> => roster = roster_at_call
    /\ roster \subseteq KnownPlayerIds

\* C12 as stated: after reset(), step() returns terminated = False on each of
\* the first 9 steps and True on the 10th and every later one, truncated is
\* always False, the observation has 6 elements, the last the number of
\* steps since the last reset and the bank element equal to bank_start;
\* action 0 leaves the roster unchanged; the roster is a subset of the known
\* player ids.
C12_EpisodeProtocolAsStated ==
    steps # <<>> =>
        /\ EpisodeShape
        /\ returned.obs[6] = steps[1]
        /\ returned.obs[5] = bank_start

\* C12, amended: as above, except that the observation holds float32 values:
\* the bank element is bank_start rounded to float32 and the last element is
\* the float32 of the number of steps since the last reset.
C12_EpisodeProtocol ==
    steps # <<>> =>
        /\ EpisodeShape
        /\ returned.obs[6] = float32(steps[1])
        /\ returned.obs[5] = float32(bank_start)

\* C12 witness: an episode past its 10th step, terminated, with a player
\* bought and a bank_start that float32 rounds
C12_Witness ==
    /\ steps # <<>>
    /\ steps[1] > EpisodeLength
    /\ returned.call = "step"
    /\ returned.term
    /\ roster # {}
    /\ float32(bank_start) # bank_start

====
